---------------------------- MODULE Spec2Model ----------------------------
(***************************************************************************)
(* Model of src/server.js (lines 1-203): an Express server that keeps an   *)
(* in-memory cache (LocalCache) of a remote Supabase store, resolves a     *)
(* two-tier credential and throttles sub-admin record uploads.             *)
(*                                                                         *)
(* Node runs one callback at a time: every action below is one             *)
(* synchronous segment of a handler, from the point where it is entered    *)
(* or resumed to its next `await` or to its response.  The store calls are *)
(* the only suspension points; a call is issued by one segment, executed   *)
(* by the store in a step of its own, and its result is consumed by the    *)
(* segment that resumes the handler.                                       *)
(*                                                                         *)
(* Lines 204-343 of the file are an earlier revision of the same server    *)
(* (no cache, one credential); the model follows lines 1-203.              *)
(*                                                                         *)
(* Three specifications share the actions:                                 *)
(*   Spec          the cache, its readers and the writes that force syncs  *)
(*   SpecAuth      every gated endpoint under every credential             *)
(*   SpecThrottle  sub-admin uploads, the clock and failing inserts        *)
(*   SpecUpdate    update and delete by id against either key typing       *)
(*   SpecFaults    every endpoint while reads fail or the sync raises      *)
(*   SpecFrame     every endpoint beside the sub-admin's uploads           *)
(*   SpecMinutes   the remaining minutes of a throttled upload             *)
(***************************************************************************)
EXTENDS Integers, Sequences, FiniteSets, TLC

\* ------------------------------------------------------------------ bounds
NumProcs == 2          \* slots: handlers (the first sync included) in flight together
MaxRequests == 2       \* requests started in one behaviour
MaxTicks == 2          \* clock advances in one behaviour
MaxFaults == 1         \* store calls that fail for a reason of the store's own

\* --------------------------------------------------------------- constants
ADMIN_PASSWORD == "888888"
COOLDOWN == 10 * 60 * 1000
UNIQUE_VIOLATION == "23505"

NULL == "<null>"              \* JS null: a settings row that is absent, a failed read
UNDEFINED == "<undefined>"    \* JS undefined: a header that was not sent
EMPTY_MAP == "{}"             \* the empty aliases mapping
NoRow == [id |-> 0, play_date |-> 0]

Procs == 1 .. NumProcs
Passwords == {"", "s1", ADMIN_PASSWORD}
Credentials == Passwords \cup {UNDEFINED}
Digits == {"0", "1", "2", "3", "4", "5", "6", "7", "8", "9"}
TickSteps == {COOLDOWN \div 2}
StartTime == 3 * COOLDOWN      \* Date.now() when the server starts: far from 0

VARIABLES
    store,      \* the remote store: records table, the two settings rows, key typing
    cache,      \* LocalCache: records, aliases, subAdminPwd, lastSubActionTime
    req,        \* per slot: the request in flight (or answered) there
    now,        \* Date.now()
    nreq,       \* requests started so far
    nticks,     \* clock advances so far
    nfaults,    \* transient store failures so far
    subWrites   \* history: the store inserts that succeeded for sub-admin requests

vars == <<store, cache, req, now, nreq, nticks, nfaults, subWrites>>

\* ----------------------------------------------------------- JS primitives
\* JS truthiness of a string-or-null value (server.js:63, 45, 46).
Truthy(v) == v \notin {NULL, UNDEFINED, ""}

\* /^\d+$/.test(id) (server.js:184)
IsDigits(s) == Len(s) > 0 /\ \A i \in 1 .. Len(s) : s[i] \in Digits

DigitVal(c) ==
    CASE c = "0" -> 0 [] c = "1" -> 1 [] c = "2" -> 2 [] c = "3" -> 3
      [] c = "4" -> 4 [] c = "5" -> 5 [] c = "6" -> 6 [] c = "7" -> 7
      [] c = "8" -> 8 [] c = "9" -> 9

\* parseInt(id) of a string of decimal digits (server.js:185)
RECURSIVE ParseInt(_)
ParseInt(s) ==
    IF Len(s) = 0 THEN 0
    ELSE 10 * ParseInt(SubSeq(s, 1, Len(s) - 1)) + DigitVal(s[Len(s)])

\* Math.floor in the place of Math.ceil.
FloorDiv(a, b) == a \div b

\* Math.ceil(a / b) for a >= 0, b > 0 (server.js:118)
CeilDiv(a, b) == (a + b - 1) \div b


\* ------------------------------------------------------------- the store
\* The rows of `rows` in an order the store may return for
\* .order('play_date', { ascending: false }): rows of equal play_date come in
\* an order the store chooses.
Orderings(rows) ==
    { s \in [1 .. Cardinality(rows) -> rows] :
        /\ \A i, j \in DOMAIN s : i < j => s[i].play_date >= s[j].play_date
        /\ \A i, j \in DOMAIN s : i # j => s[i] # s[j] }

\* .eq('id', key): the route parameter always arrives as a string; a store
\* with strictly typed integer keys matches it only once it is parsed.
\* `numeric` says whether the caller passed parseInt(id).
EqId(row, id, numeric) ==
    IF numeric THEN row.id = ParseInt(id)
    ELSE ~store.strictKeys /\ IsDigits(id) /\ row.id = ParseInt(id)

NoResult == [error |-> "none", data |-> <<>>]
ErrResult(code) == [error |-> code, data |-> <<>>]
Pending == "<pending>"
NoReads == [recordsTag |-> "none", records |-> <<>>, aliases |-> NULL, subPwd |-> NULL]
IssuedReads == [recordsTag |-> Pending, records |-> <<>>, aliases |-> Pending, subPwd |-> Pending]

\* ------------------------------------------------------------- requests
Idle ==
    [pc |-> "idle", kind |-> "none", token |-> UNDEFINED, role |-> "none",
     row |-> NoRow, id |-> <<>>, value |-> NULL, numeric |-> FALSE,
     res |-> NoResult, rd |-> NoReads, status |-> 0,
     body |-> <<>>, text |-> NULL, minutes |-> 0,
     calls |-> 0, serial |-> 0, seen |-> 0]

\* A new request in slot p: Express enters the route's middleware chain.
Fresh(kind, token) ==
    [Idle EXCEPT !.kind = kind, !.token = token, !.serial = nreq + 1]

\* Slot p takes the next request: the first slot whose request, if any, has
\* been answered (which slot a request occupies is bookkeeping of the model).
Free(p) ==
    /\ req[p].pc \in {"idle", "done"}
    /\ \A q \in 1 .. p - 1 : req[q].pc \notin {"idle", "done"}
    /\ nreq < MaxRequests

\* res.status(code).json(...): the request is answered; body, text and
\* minutes hold what the answer carries (rows, a role or the aliases, the
\* remaining minutes).
Respond(r, code) ==
    [Idle EXCEPT !.pc = "done", !.status = code, !.kind = r.kind,
                 !.token = r.token, !.role = r.role, !.calls = r.calls,
                 !.value = IF r.kind = "setSubPwd" THEN r.value ELSE NULL,
                 !.id = IF r.kind = "delete" THEN r.id ELSE <<>>]

\* The handler issues one store call and awaits it.
Call(r) == [r EXCEPT !.pc = "call", !.calls = @ + 1]

\* ------------------------------------------------------------- LocalCache
\* The early return taken for the forced sync instead of the lazy one.
SyncSkippedInverted(forceRefresh) == Len(cache.records) > 0 /\ forceRefresh

\* server.js:32: the early return of sync(forceRefresh)
SyncSkipped(forceRefresh) == Len(cache.records) > 0 /\ ~forceRefresh

\* server.js:36-40: the three reads are issued together (Promise.all).
StartSync(r) == [r EXCEPT !.pc = "sync", !.rd = IssuedReads, !.calls = @ + 3]

AllRead(r) ==
    /\ r.rd.recordsTag \in {"ok", "err"}
    /\ r.rd.aliases # Pending
    /\ r.rd.subPwd # Pending

\* A sync that keeps the defaults for all three fields as soon as one of
\* its reads has failed.
LoadedAllOrNothing(rd) ==
    IF rd.recordsTag = "ok" /\ rd.aliases # NULL /\ rd.subPwd # NULL
    THEN [cache EXCEPT !.records = rd.records, !.aliases = rd.aliases,
                       !.subAdminPwd = rd.subPwd]
    ELSE [cache EXCEPT !.records = <<>>, !.aliases = EMPTY_MAP, !.subAdminPwd = NULL]

\* server.js:44-46: the three assignments, made in one synchronous segment
\* once Promise.all has resolved.
Loaded(rd) ==
    [cache EXCEPT
        !.records = IF rd.recordsTag = "ok" THEN rd.records ELSE <<>>,
        !.aliases = IF rd.aliases # NULL THEN rd.aliases ELSE EMPTY_MAP,
        !.subAdminPwd = rd.subPwd]

\* ------------------------------------------------------------- auth
\* The sub-admin comparison without the truthiness guard of server.js:63.
AuthRoleNoGuard(token) ==
    IF token = ADMIN_PASSWORD THEN "admin"
    ELSE IF token = cache.subAdminPwd THEN "sub_admin"
    ELSE "none"

\* The two comparisons of server.js:58 and 63 in the other order.
AuthRoleSubFirst(token) ==
    IF Truthy(cache.subAdminPwd) /\ token = cache.subAdminPwd THEN "sub_admin"
    ELSE IF token = ADMIN_PASSWORD THEN "admin"
    ELSE "none"

\* server.js:55-69 authMiddleware: the role, or "none" for the 401 answer.
AuthRole(token) ==
    IF token = ADMIN_PASSWORD THEN "admin"
    ELSE IF Truthy(cache.subAdminPwd) /\ token = cache.subAdminPwd THEN "sub_admin"
    ELSE "none"

\* A gate that lets every authenticated role through.
IsAnyAdmin(role) == role \in {"admin", "sub_admin"}

\* server.js:71-77 requireSuperAdmin
IsSuperAdmin(role) == role = "admin"

\* The status the two middlewares answer with, 0 when the handler is entered.
Gate(role, superOnly) ==
    IF role = "none" THEN 401
    ELSE IF superOnly /\ ~IsSuperAdmin(role) THEN 403
    ELSE 0

\* ------------------------------------------------------------- rate limiter
\* The check with the boundary on the wrong side.
ThrottledInclusive(role, t) ==
    role = "sub_admin" /\ t - cache.lastSubActionTime <= COOLDOWN

\* The check against a role name authMiddleware never assigns.
ThrottledNever(role, t) ==
    role = "subadmin" /\ t - cache.lastSubActionTime < COOLDOWN

\* server.js:112-117: the throttle check of POST /api/records
Throttled(role, t) == role = "sub_admin" /\ t - cache.lastSubActionTime < COOLDOWN

\* server.js:118
RemainingMin(t) == CeilDiv(COOLDOWN - (t - cache.lastSubActionTime), 60000)


\* ------------------------------------------------------------- Init
\* The state when app.listen's callback has run (server.js:200-203): the
\* cache holds its literal initial values (server.js:24-29) and the first
\* forced sync has issued its three reads.  The store holds whatever an
\* earlier run of the server left in it.
InitWith(stores) ==
    /\ store \in stores
    /\ cache = [records |-> <<>>, aliases |-> EMPTY_MAP, subAdminPwd |-> NULL,
                lastSubActionTime |-> 0]
    /\ req = [p \in Procs |->
                IF p = 1 THEN StartSync([Idle EXCEPT !.kind = "boot"]) ELSE Idle]
    /\ now = StartTime
    /\ nreq = 0
    /\ nticks = 0
    /\ nfaults = 0
    /\ subWrites = {}

Store(rs, al, pw, k) == [records |-> rs, aliases |-> al, subPwd |-> pw, strictKeys |-> k]
Row(i, d) == [id |-> i, play_date |-> d]

\* ------------------------------------------------------------- the clock
Tick(d) ==
    /\ nticks < MaxTicks
    /\ now' = now + d
    /\ nticks' = nticks + 1
    /\ UNCHANGED <<store, cache, req, nreq, nfaults, subWrites>>

\* ------------------------------------------------- handlers: first segment
\* POST /api/login (server.js:80-82)
Login(p, token) ==
    /\ Free(p)
    /\ LET role == AuthRole(token)
           r == [Fresh("login", token) EXCEPT !.role = role]
       IN req' = [req EXCEPT ![p] =
                    IF Gate(role, FALSE) # 0 THEN Respond(r, Gate(role, FALSE))
                    ELSE [Respond(r, 200) EXCEPT !.text = role]]
    /\ nreq' = nreq + 1
    /\ UNCHANGED <<store, cache, now, nticks, nfaults, subWrites>>

\* POST /api/settings/sub-password (server.js:85-91): up to the upsert
SetSubPassword(p, token, password) ==
    /\ Free(p)
    /\ LET role == AuthRole(token)
           r == [Fresh("setSubPwd", token) EXCEPT !.role = role, !.value = password]
       IN req' = [req EXCEPT ![p] =
                    IF Gate(role, TRUE) # 0 THEN Respond(r, Gate(role, TRUE))
                    ELSE Call(r)]
    /\ nreq' = nreq + 1
    /\ UNCHANGED <<store, cache, now, nticks, nfaults, subWrites>>

\* GET /api/records (server.js:102-105): answered at once from the cache
\* when sync(false) returns early, else up to the three reads
GetRecords(p) ==
    /\ Free(p)
    /\ LET r == Fresh("getRecords", UNDEFINED)
       IN req' = [req EXCEPT ![p] =
                    IF SyncSkipped(FALSE)
                    THEN [Respond(r, 200) EXCEPT !.body = cache.records]
                    ELSE StartSync(r)]
    /\ nreq' = nreq + 1
    /\ UNCHANGED <<store, cache, now, nticks, nfaults, subWrites>>

\* POST /api/records (server.js:110-126): auth, throttle, up to the insert
PostRecord(p, token, row) ==
    /\ Free(p)
    /\ LET role == AuthRole(token)
           r == [Fresh("postRecord", token) EXCEPT
                   !.role = role, !.row = row, !.seen = cache.lastSubActionTime]
       IN req' = [req EXCEPT ![p] =
                    IF Gate(role, FALSE) # 0 THEN Respond(r, Gate(role, FALSE))
                    ELSE IF Throttled(role, now)
                    THEN [Respond(r, 429) EXCEPT !.minutes = RemainingMin(now)]
                    ELSE Call(r)]
    /\ nreq' = nreq + 1
    /\ UNCHANGED <<store, cache, now, nticks, nfaults, subWrites>>

\* GET /api/aliases (server.js:143-146)
GetAliases(p) ==
    /\ Free(p)
    /\ LET r == Fresh("getAliases", UNDEFINED)
       IN req' = [req EXCEPT ![p] =
                    IF SyncSkipped(FALSE)
                    THEN [Respond(r, 200) EXCEPT !.text = cache.aliases]
                    ELSE StartSync(r)]
    /\ nreq' = nreq + 1
    /\ UNCHANGED <<store, cache, now, nticks, nfaults, subWrites>>

\* POST /api/aliases (server.js:151-156): up to the upsert
PostAliases(p, token, value) ==
    /\ Free(p)
    /\ LET role == AuthRole(token)
           r == [Fresh("postAliases", token) EXCEPT !.role = role, !.value = value]
       IN req' = [req EXCEPT ![p] =
                    IF Gate(role, TRUE) # 0 THEN Respond(r, Gate(role, TRUE))
                    ELSE Call(r)]
    /\ nreq' = nreq + 1
    /\ UNCHANGED <<store, cache, now, nticks, nfaults, subWrites>>

\* DELETE /api/records/:id (server.js:164-167): up to the delete
DeleteRecord(p, token, id) ==
    /\ Free(p)
    /\ LET role == AuthRole(token)
           r == [Fresh("delete", token) EXCEPT !.role = role, !.id = id]
       IN req' = [req EXCEPT ![p] =
                    IF Gate(role, TRUE) # 0 THEN Respond(r, Gate(role, TRUE))
                    ELSE Call(r)]
    /\ nreq' = nreq + 1
    /\ UNCHANGED <<store, cache, now, nticks, nfaults, subWrites>>

\* PUT /api/records/:id (server.js:175-181): up to the first update; the
\* id field is dropped from the updates, which leaves play_date
PutRecord(p, token, id, row) ==
    /\ Free(p)
    /\ LET role == AuthRole(token)
           r == [Fresh("put", token) EXCEPT
                   !.role = role, !.id = id, !.row = [row EXCEPT !.id = 0]]
       IN req' = [req EXCEPT ![p] =
                    IF Gate(role, TRUE) # 0 THEN Respond(r, Gate(role, TRUE))
                    ELSE Call(r)]
    /\ nreq' = nreq + 1
    /\ UNCHANGED <<store, cache, now, nticks, nfaults, subWrites>>


\* ------------------------------------------------- the store executes a call
Returned(p, result) == [req EXCEPT ![p] = [@ EXCEPT !.pc = "ret", !.res = result]]

\* supabase.from('records').insert(req.body): the primary key is unique
StoreInsert(p) ==
    /\ req[p].pc = "call" /\ req[p].kind = "postRecord"
    /\ LET row == req[p].row
           dup == \E x \in store.records : x.id = row.id
       IN /\ store' = IF dup THEN store ELSE [store EXCEPT !.records = @ \cup {row}]
          /\ req' = Returned(p, IF dup THEN ErrResult(UNIQUE_VIOLATION) ELSE NoResult)
          /\ subWrites' =
                IF ~dup /\ req[p].role = "sub_admin"
                THEN subWrites \cup {[n |-> req[p].serial, ins |-> now,
                                      seen |-> req[p].seen, rec |-> -1]}
                ELSE subWrites
    /\ UNCHANGED <<cache, now, nreq, nticks, nfaults>>

\* supabase.from('settings').upsert({ key: 'sub_admin_password', value })
StoreUpsertSubPwd(p) ==
    /\ req[p].pc = "call" /\ req[p].kind = "setSubPwd"
    /\ store' = [store EXCEPT !.subPwd = req[p].value]
    /\ req' = Returned(p, NoResult)
    /\ UNCHANGED <<cache, now, nreq, nticks, nfaults, subWrites>>

\* supabase.from('settings').upsert({ key: 'mahjong_aliases', value })
StoreUpsertAliases(p) ==
    /\ req[p].pc = "call" /\ req[p].kind = "postAliases"
    /\ store' = [store EXCEPT !.aliases = req[p].value]
    /\ req' = Returned(p, NoResult)
    /\ UNCHANGED <<cache, now, nreq, nticks, nfaults, subWrites>>

\* supabase.from('records').delete().eq('id', id)
StoreDelete(p) ==
    /\ req[p].pc = "call" /\ req[p].kind = "delete"
    /\ store' = [store EXCEPT
                   !.records = { x \in @ : ~EqId(x, req[p].id, FALSE) }]
    /\ req' = Returned(p, NoResult)
    /\ UNCHANGED <<cache, now, nreq, nticks, nfaults, subWrites>>

\* supabase.from('records').update(updates).eq('id', key).select()
StoreUpdate(p) ==
    /\ req[p].pc = "call" /\ req[p].kind = "put"
    /\ LET hit == { x \in store.records : EqId(x, req[p].id, req[p].numeric) }
           new(x) == [x EXCEPT !.play_date = req[p].row.play_date]
       IN /\ store' = [store EXCEPT
                         !.records = (@ \ hit) \cup { new(x) : x \in hit }]
          /\ req' = Returned(p,
                      [error |-> "none",
                       data |-> IF hit = {} THEN <<>>
                                ELSE <<new(CHOOSE x \in hit : TRUE)>>])
    /\ UNCHANGED <<cache, now, nreq, nticks, nfaults, subWrites>>

\* Any mutating call may fail for a reason of the store's own: { error }
\* comes back and the store is unchanged.
StoreError(p) ==
    /\ req[p].pc = "call"
    /\ nfaults < MaxFaults
    /\ nfaults' = nfaults + 1
    /\ req' = Returned(p, ErrResult("other"))
    /\ UNCHANGED <<store, cache, now, nreq, nticks, subWrites>>

\* ------------------------------------------------- handlers: after the call
\* The timestamp taken before the result of the insert is looked at.
StampBeforeCheck(role, res) ==
    IF role = "sub_admin" THEN now ELSE cache.lastSubActionTime

\* The timestamp taken for every role.
StampAnyRole(role, res) ==
    IF res.error = "none" THEN now ELSE cache.lastSubActionTime

\* server.js:134: what lastSubActionTime is after an insert returned `res`
StampAfterInsert(role, res) ==
    IF res.error = "none" /\ role = "sub_admin" THEN now
    ELSE cache.lastSubActionTime

\* The error code compared with one the store never sends, so that every
\* failed insert is thrown to the catch block.
InsertFailureAll500(res) == IF res.error = "none" THEN 0 ELSE 500

\* server.js:127-130: the answer to a failed insert, 0 when it succeeded
InsertFailure(res) ==
    IF res.error = "none" THEN 0
    ELSE IF res.error = UNIQUE_VIOLATION THEN 409
    ELSE 500

\* POST /api/records (server.js:127-136)
PostRecordReturn(p) ==
    /\ req[p].pc = "ret" /\ req[p].kind = "postRecord"
    /\ LET r == req[p]
           code == InsertFailure(r.res)
       IN /\ req' = [req EXCEPT ![p] =
                       IF code # 0 THEN Respond(r, code) ELSE StartSync(r)]
          /\ cache' = [cache EXCEPT
                         !.lastSubActionTime = StampAfterInsert(r.role, r.res)]
          /\ subWrites' =
                IF code = 0 /\ r.role = "sub_admin"
                THEN { IF w.n = r.serial THEN [w EXCEPT !.rec = now] ELSE w :
                         w \in subWrites }
                ELSE subWrites
    /\ UNCHANGED <<store, now, nreq, nticks, nfaults>>

\* The delete handler looking for a deleted row in the result, as the
\* update handler does, and answering "not found" without one.
UpsertOrDeleteReturnChecksRows(p) ==
    /\ req[p].pc = "ret" /\ req[p].kind \in {"setSubPwd", "postAliases", "delete"}
    /\ req' = [req EXCEPT ![p] =
                 IF @.res.error # "none" THEN Respond(@, 500)
                 ELSE IF @.kind = "delete" /\ Len(@.res.data) = 0 THEN Respond(@, 404)
                 ELSE StartSync(@)]
    /\ UNCHANGED <<store, cache, now, nreq, nticks, nfaults, subWrites>>

\* The handlers whose call is followed by `if (error) throw error` and a
\* forced sync: server.js:92-94, 157-158, 168-169
UpsertOrDeleteReturn(p) ==
    /\ req[p].pc = "ret" /\ req[p].kind \in {"setSubPwd", "postAliases", "delete"}
    /\ req' = [req EXCEPT ![p] =
                 IF @.res.error # "none" THEN Respond(@, 500) ELSE StartSync(@)]
    /\ UNCHANGED <<store, cache, now, nreq, nticks, nfaults, subWrites>>

\* server.js:183-184: the first update is retried with the parsed key
RetryUpdate(r) == ~r.numeric /\ Len(r.res.data) = 0 /\ IsDigits(r.id)

\* The update handler throwing on an empty result, so that a missing row
\* is answered by the catch block.
PutRecordReturnThrowsMissing(p) ==
    /\ req[p].pc = "ret" /\ req[p].kind = "put"
    /\ LET r == req[p]
       IN req' = [req EXCEPT ![p] =
                    IF RetryUpdate(r) THEN Call([r EXCEPT !.numeric = TRUE, !.res = NoResult])
                    ELSE IF r.res.error # "none" \/ Len(r.res.data) = 0 THEN Respond(r, 500)
                    ELSE StartSync(r)]
    /\ UNCHANGED <<store, cache, now, nreq, nticks, nfaults, subWrites>>

\* PUT /api/records/:id (server.js:183-194)
PutRecordReturn(p) ==
    /\ req[p].pc = "ret" /\ req[p].kind = "put"
    /\ LET r == req[p]
       IN req' = [req EXCEPT ![p] =
                    IF RetryUpdate(r) THEN Call([r EXCEPT !.numeric = TRUE, !.res = NoResult])
                    ELSE IF r.res.error # "none" THEN Respond(r, 500)
                    ELSE IF Len(r.res.data) = 0 THEN Respond(r, 404)
                    ELSE StartSync(r)]
    /\ UNCHANGED <<store, cache, now, nreq, nticks, nfaults, subWrites>>

\* ------------------------------------------------- LocalCache.sync's reads
\* server.js:37
SyncReadRecords(p) ==
    /\ req[p].pc = "sync" /\ req[p].rd.recordsTag = Pending
    /\ \E s \in Orderings(store.records) :
         req' = [req EXCEPT ![p].rd.recordsTag = "ok", ![p].rd.records = s]
    /\ UNCHANGED <<store, cache, now, nreq, nticks, nfaults, subWrites>>

\* server.js:38: .single() gives data null when the row is absent
SyncReadAliases(p) ==
    /\ req[p].pc = "sync" /\ req[p].rd.aliases = Pending
    /\ req' = [req EXCEPT ![p].rd.aliases = store.aliases]
    /\ UNCHANGED <<store, cache, now, nreq, nticks, nfaults, subWrites>>

\* server.js:39
SyncReadSubPwd(p) ==
    /\ req[p].pc = "sync" /\ req[p].rd.subPwd = Pending
    /\ req' = [req EXCEPT ![p].rd.subPwd = store.subPwd]
    /\ UNCHANGED <<store, cache, now, nreq, nticks, nfaults, subWrites>>

\* A read that comes back as { data: null, error }
SyncReadError(p, field) ==
    /\ req[p].pc = "sync"
    /\ nfaults < MaxFaults
    /\ nfaults' = nfaults + 1
    /\ CASE field = "records" ->
              /\ req[p].rd.recordsTag = Pending
              /\ req' = [req EXCEPT ![p].rd.recordsTag = "err"]
         [] field = "aliases" ->
              /\ req[p].rd.aliases = Pending
              /\ req' = [req EXCEPT ![p].rd.aliases = NULL]
         [] field = "subPwd" ->
              /\ req[p].rd.subPwd = Pending
              /\ req' = [req EXCEPT ![p].rd.subPwd = NULL]
    /\ UNCHANGED <<store, cache, now, nreq, nticks, subWrites>>

\* Every handler answering 500 from its catch block.
OnSyncRaiseAll500(r) ==
    IF r.kind = "boot" THEN Idle ELSE Respond(r, 500)

\* What the caller's catch block does when the awaited sync raises:
\* server.js:202 logs, 148 answers {} with the default status, 107 and the
\* mutating handlers (98, 139, 160, 171, 197) answer 500.
OnSyncRaise(r) ==
    CASE r.kind = "boot" -> Idle
      [] r.kind = "getAliases" -> [Respond(r, 200) EXCEPT !.text = EMPTY_MAP]
      [] OTHER -> Respond(r, 500)

\* One of the reads still pending rejects (the transport throws instead of
\* returning { error }): Promise.all rejects (server.js:36-40), sync raises
\* before its assignments and the caller's catch block runs.  The results
\* of the other reads are dropped.
SyncRaise(p) ==
    /\ req[p].pc = "sync" /\ ~AllRead(req[p])
    /\ nfaults < MaxFaults
    /\ nfaults' = nfaults + 1
    /\ req' = [req EXCEPT ![p] = OnSyncRaise(@)]
    /\ UNCHANGED <<store, cache, now, nreq, nticks, subWrites>>

\* The update handler answering with the first cached row in place of the
\* row the store returned.
AfterSyncCachedRow(r, c) ==
    CASE r.kind = "boot" -> Idle
      [] r.kind = "getRecords" -> [Respond(r, 200) EXCEPT !.body = c.records]
      [] r.kind = "getAliases" -> [Respond(r, 200) EXCEPT !.text = c.aliases]
      [] r.kind = "put" ->
            [Respond(r, 200) EXCEPT
                !.body = IF Len(c.records) > 0 THEN <<c.records[1]>> ELSE <<>>]
      [] OTHER -> Respond(r, 200)

\* What the caller of sync does once it has returned (server.js:95, 105,
\* 138, 146, 159, 170, 195, 202), given the cache `c` it then reads.
AfterSync(r, c) ==
    CASE r.kind = "boot" -> Idle
      [] r.kind = "getRecords" -> [Respond(r, 200) EXCEPT !.body = c.records]
      [] r.kind = "getAliases" -> [Respond(r, 200) EXCEPT !.text = c.aliases]
      [] r.kind = "put" -> [Respond(r, 200) EXCEPT !.body = <<r.res.data[1]>>]
      [] OTHER -> Respond(r, 200)

\* A sync that assigns records and answers before the other two fields are
\* assigned.
SyncPublishRecordsOnly(p) ==
    /\ req[p].pc = "sync" /\ AllRead(req[p])
    /\ cache' = [cache EXCEPT !.records = Loaded(req[p].rd).records]
    /\ req' = [req EXCEPT ![p] = AfterSync(@, cache')]
    /\ UNCHANGED <<store, now, nreq, nticks, nfaults, subWrites>>

\* server.js:44-46 and the caller's continuation: Promise.all has resolved
SyncPublish(p) ==
    /\ req[p].pc = "sync" /\ AllRead(req[p])
    /\ cache' = Loaded(req[p].rd)
    /\ req' = [req EXCEPT ![p] = AfterSync(@, cache')]
    /\ UNCHANGED <<store, now, nreq, nticks, nfaults, subWrites>>


\* ------------------------------------------------------------- Spec
\* The cache and its readers: the two GET handlers and the login read the
\* cache while the three kinds of write that change what a sync loads
\* (records, aliases, sub-admin secret) force resyncs.  The first slot runs
\* the sync of app.listen's callback.
Init == InitWith({ Store({Row(1, 1)}, NULL, NULL, FALSE) })

Next ==
    \E p \in Procs :
        \/ Login(p, "s1")
        \/ GetRecords(p)
        \/ GetAliases(p)
        \/ \E row \in {Row(1, 1), Row(2, 2)} : PostRecord(p, ADMIN_PASSWORD, row)
        \/ PostAliases(p, ADMIN_PASSWORD, "a1")
        \/ SetSubPassword(p, ADMIN_PASSWORD, "s1")
        \/ StoreInsert(p)
        \/ StoreUpsertAliases(p)
        \/ StoreUpsertSubPwd(p)
        \/ PostRecordReturn(p)
        \/ UpsertOrDeleteReturn(p)
        \/ SyncReadRecords(p)
        \/ SyncReadAliases(p)
        \/ SyncReadSubPwd(p)
        \/ SyncPublish(p)

Spec == Init /\ [][Next]_vars

\* A request enters slot p in this step.
Started(p) == Free(p) /\ nreq' = nreq + 1

\* Slot p's handler takes this step.
Steps(p) == req'[p] # req[p] \/ Started(p)

Snapshot(c) == <<c.records, c.aliases, c.subAdminPwd>>

\* C1: every step either leaves records, aliases and subAdminPwd of the
\* cache as they were, or replaces all three by what one sync has read
\* (server.js:44-46): no state between two steps mixes two syncs.
C1_AtomicPublish ==
    [][\/ Snapshot(cache') = Snapshot(cache)
       \/ \E p \in Procs :
            /\ req[p].pc = "sync" /\ AllRead(req[p])
            /\ cache'.records =
                 (IF req[p].rd.recordsTag = "ok" THEN req[p].rd.records ELSE <<>>)
            /\ cache'.aliases =
                 (IF req[p].rd.aliases = NULL THEN EMPTY_MAP ELSE req[p].rd.aliases)
            /\ cache'.subAdminPwd = req[p].rd.subPwd]_vars

\* A forced resync after an aliases write has been published and a GET
\* handler has been answered beside it.
C1_Witness ==
    /\ cache.aliases = "a1" /\ Len(cache.records) > 0
    /\ \E p, q \in Procs :
         /\ req[p].pc = "done" /\ req[p].kind = "postAliases" /\ req[p].status = 200
         /\ req[q].pc = "done" /\ req[q].kind \in {"getRecords", "getAliases"}


\* C8: once POST /api/settings/sub-password has answered 200, every
\* credential is classified against the secret it wrote: the cache holds
\* that secret.  Stated for the states in which the store still holds the
\* secret and no other such request is in flight.
C8_SecretHonoured ==
    \A p \in Procs :
        ( /\ req[p].pc = "done" /\ req[p].kind = "setSubPwd" /\ req[p].status = 200
          /\ store.subPwd = req[p].value
          /\ \A q \in Procs : req[q].kind = "setSubPwd" => req[q].pc = "done" )
        => \A t \in Credentials :
             AuthRole(t) = IF t = ADMIN_PASSWORD THEN "admin"
                           ELSE IF t = req[p].value /\ t # "" THEN "sub_admin"
                           ELSE "none"

\* The GET handlers entered in this step, with the cache they found.
GetStarted(p) == Started(p) /\ req'[p].kind \in {"getRecords", "getAliases"}

\* C9: a GET /api/records or GET /api/aliases that finds records in the
\* cache is answered in the same step from the cached records / aliases,
\* has issued no store call, and leaves the cache and the store unchanged.
C9_LazySyncSkips ==
    [][\A p \in Procs :
         (GetStarted(p) /\ Len(cache.records) > 0) =>
            /\ req'[p].pc = "done" /\ req'[p].status = 200 /\ req'[p].calls = 0
            /\ req'[p].kind = "getRecords" => req'[p].body = cache.records
            /\ req'[p].kind = "getAliases" => req'[p].text = cache.aliases
            /\ cache' = cache /\ store' = store
            /\ \A q \in Procs \ {p} : req'[q] = req[q]]_vars

\* GET /api/records has been answered from a cache that holds records,
\* without a store call.
C9_Witness ==
    \E p \in Procs :
        /\ req[p].pc = "done" /\ req[p].kind = "getRecords" /\ req[p].calls = 0
        /\ Len(req[p].body) > 0 /\ req[p].body = cache.records

\* C10: the segment of POST /api/records that receives a uniqueness
\* violation (code 23505) answers 409 and leaves the cache as it was; the
\* request has issued the insert and no read of a resync.
C10_ConflictNoResync ==
    [][\A p \in Procs :
         ( /\ req[p].pc = "ret" /\ req[p].kind = "postRecord"
           /\ req[p].res.error = UNIQUE_VIOLATION /\ Steps(p) ) =>
            /\ req'[p].pc = "done" /\ req'[p].status = 409 /\ req'[p].calls = 1
            /\ cache' = cache /\ store' = store]_vars

\* An insert of a row whose id the store already holds has been answered.
C10_Witness ==
    \E p \in Procs :
        /\ req[p].pc = "done" /\ req[p].kind = "postRecord" /\ req[p].status = 409
        /\ req[p].calls = 1


\* ------------------------------------------------------------- SpecAuth
\* The credential gates: every endpoint behind authMiddleware is entered
\* with every credential, against every value the cached sub-admin secret
\* takes (absent, empty, a secret, the super-admin's own secret).  The
\* gates run in the segment that enters the handler, so the requests are
\* taken one after the other here (beside the first sync); the other
\* specifications interleave them.
OneAtATime == \A q \in Procs : req[q].kind = "boot" \/ req[q].pc \in {"idle", "done"}

InitAuth ==
    InitWith({ Store({Row(1, 1)}, NULL, pw, FALSE) : pw \in Passwords \cup {NULL} })

AuthLogin(p, t) == OneAtATime /\ Login(p, t)
AuthPostRecord(p, t) == OneAtATime /\ PostRecord(p, t, Row(2, 2))
AuthPostAliases(p, t) == OneAtATime /\ PostAliases(p, t, "a1")
AuthSetSubPassword(p, t, w) == OneAtATime /\ SetSubPassword(p, t, w)
AuthDeleteRecord(p, t) == OneAtATime /\ DeleteRecord(p, t, <<"1">>)
AuthPutRecord(p, t) == OneAtATime /\ PutRecord(p, t, <<"1">>, Row(1, 2))

NextAuth ==
    \/ \E p \in Procs, t \in Credentials :
            \/ AuthLogin(p, t)
            \/ AuthPostRecord(p, t)
            \/ AuthPostAliases(p, t)
            \/ \E w \in Passwords : AuthSetSubPassword(p, t, w)
            \/ AuthDeleteRecord(p, t)
            \/ AuthPutRecord(p, t)
    \/ \E p \in Procs :
            \/ StoreInsert(p)
            \/ StoreUpsertAliases(p)
            \/ StoreUpsertSubPwd(p)
            \/ StoreDelete(p)
            \/ StoreUpdate(p)
            \/ PostRecordReturn(p)
            \/ UpsertOrDeleteReturn(p)
            \/ PutRecordReturn(p)
            \/ SyncReadRecords(p)
            \/ SyncReadAliases(p)
            \/ SyncReadSubPwd(p)
            \/ SyncPublish(p)

SpecAuth == InitAuth /\ [][NextAuth]_vars

Protected == {"login", "postRecord", "postAliases", "put", "delete", "setSubPwd"}
SuperOnly == {"postAliases", "put", "delete", "setSubPwd"}

\* The credential is the cached sub-admin secret, which is set and not empty.
IsSubSecret(t) == cache.subAdminPwd \notin {NULL, ""} /\ t = cache.subAdminPwd

\* The request entering slot p is answered `code` in this very step: it has
\* issued no store call, and the store, the cache (the limiter's timestamp
\* included) and the other requests are as they were.
Refused(p, code) ==
    /\ req'[p].pc = "done" /\ req'[p].status = code /\ req'[p].calls = 0
    /\ store' = store /\ cache' = cache /\ subWrites' = subWrites
    /\ \A q \in Procs \ {p} : req'[q] = req[q]

\* C2: on every endpoint behind authMiddleware, a credential that is
\* neither the super-admin secret nor the non-empty cached sub-admin secret
\* is answered 401 with no store call and no change of cache or limiter.
C2_BadCredential401 ==
    [][\A p \in Procs :
         ( /\ Started(p) /\ req'[p].kind \in Protected
           /\ req'[p].token # ADMIN_PASSWORD /\ ~IsSubSecret(req'[p].token) )
         => Refused(p, 401)]_vars

\* An empty credential has been refused while the cached secret is the
\* empty string.
C2_Witness ==
    \E p \in Procs :
        /\ req[p].pc = "done" /\ req[p].status = 401 /\ req[p].token = ""
        /\ req[p].kind = "postRecord" /\ cache.subAdminPwd = ""

\* C3: on every super-admin-only endpoint, a credential that resolves to
\* sub-admin (the non-empty cached secret, not the super-admin secret) is
\* answered 403, with no store call and no resync.
C3_SubAdmin403 ==
    [][\A p \in Procs :
         ( /\ Started(p) /\ req'[p].kind \in SuperOnly
           /\ req'[p].token # ADMIN_PASSWORD /\ IsSubSecret(req'[p].token) )
         => Refused(p, 403)]_vars

\* The sub-admin's credential has been refused on the delete endpoint.
C3_Witness ==
    \E p \in Procs :
        /\ req[p].pc = "done" /\ req[p].status = 403 /\ req[p].kind = "delete"
        /\ req[p].token = "s1" /\ cache.subAdminPwd = "s1"

\* C4: the role a request gets is decided by its credential and the cached
\* sub-admin secret alone: the super-admin secret gives super-admin, also
\* when the cached secret equals it; any other credential gives sub-admin
\* exactly when it equals a cached secret that is neither null nor empty.
C4_RoleResolution ==
    [][\A p \in Procs :
         (Started(p) /\ req'[p].kind \in Protected) =>
            LET t == req'[p].token
                s == cache.subAdminPwd
            IN /\ t = ADMIN_PASSWORD => req'[p].role = "admin"
               /\ t # ADMIN_PASSWORD =>
                    (req'[p].role = "sub_admin" <=> (s # NULL /\ s # "" /\ t = s))
               /\ s \in {NULL, ""} => req'[p].role # "sub_admin"
               /\ req'[p].role = "none" <=> req'[p].status = 401
               /\ req'[p].kind = "login" /\ req'[p].status = 200
                    => req'[p].text = req'[p].role]_vars

\* The login has answered super-admin to the super-admin secret while the
\* cached sub-admin secret is that same string.
C4_Witness ==
    \E p \in Procs :
        /\ req[p].pc = "done" /\ req[p].kind = "login" /\ req[p].status = 200
        /\ req[p].token = ADMIN_PASSWORD /\ req[p].text = "admin"
        /\ cache.subAdminPwd = ADMIN_PASSWORD


\* ------------------------------------------------------------- SpecThrottle
\* The rate limiter: record uploads by the sub-admin interleave while the
\* clock advances in steps of 5 minutes and the store rejects some inserts
\* (a duplicate id, or a failure of its own).
InitThrottle == InitWith({ Store({}, NULL, "s1", FALSE) })

NextThrottle ==
    \/ \E d \in TickSteps : Tick(d)
    \/ \E p \in Procs :
            \/ \E row \in {Row(1, 1), Row(2, 2)} : PostRecord(p, "s1", row)
            \/ StoreError(p)
            \/ StoreInsert(p)
            \/ PostRecordReturn(p)
            \/ SyncReadRecords(p)
            \/ SyncReadAliases(p)
            \/ SyncReadSubPwd(p)
            \/ SyncPublish(p)

SpecThrottle == InitThrottle /\ [][NextThrottle]_vars

\* A sub-admin's POST /api/records enters slot p in this step.
SubPostStarted(p) ==
    /\ Started(p) /\ req'[p].kind = "postRecord"
    /\ req'[p].token # ADMIN_PASSWORD /\ IsSubSecret(req'[p].token)

\* C5: a sub-admin upload arriving less than 10 minutes after
\* lastSubActionTime is answered 429 with no insert and no resync; one
\* arriving 10 minutes after it or later issues the insert.
C5_Throttle ==
    [][\A p \in Procs :
         SubPostStarted(p) =>
            IF now - cache.lastSubActionTime < 10 * 60 * 1000
            THEN Refused(p, 429)
            ELSE /\ req'[p].pc = "call" /\ req'[p].calls = 1
                 /\ cache' = cache /\ store' = store]_vars

\* A sub-admin upload has been throttled 5 minutes after the one before it.
C5_Witness ==
    \E p \in Procs :
        /\ req[p].pc = "done" /\ req[p].kind = "postRecord" /\ req[p].status = 429
        /\ req[p].token = "s1" /\ req[p].minutes = 5
        /\ now - cache.lastSubActionTime = 5 * 60 * 1000

\* A sub-admin upload has passed the limiter exactly 10 minutes after the
\* one before it.
C5_WitnessAllowed ==
    \E p \in Procs :
        /\ req[p].pc = "call" /\ req[p].kind = "postRecord" /\ req[p].role = "sub_admin"
        /\ now - cache.lastSubActionTime = 10 * 60 * 1000

\* C6 as stated: any two inserts that succeed for sub-admin requests are at
\* least 10 minutes apart.
C6_NoTwoInWindow ==
    \A v, w \in subWrites :
        v.n # w.n => (v.ins - w.ins >= COOLDOWN \/ w.ins - v.ins >= COOLDOWN)

\* C6 as amended: two inserts that succeed for sub-admin requests are at
\* least 10 minutes apart when the later request made its throttle check
\* against a lastSubActionTime that the earlier request, or a request
\* after it, had recorded.
C6_SequentialApart ==
    \A v, w \in subWrites :
        (v.n # w.n /\ v.rec >= 0 /\ w.seen >= v.rec) => w.ins - v.ins >= COOLDOWN

\* Two sub-admin inserts have succeeded, the second checked against the
\* timestamp the first recorded.
C6_Witness ==
    \E v, w \in subWrites : v.n # w.n /\ v.rec >= 0 /\ w.seen = v.rec

\* C7: lastSubActionTime changes only in the segment that receives a
\* sub-admin's insert without error; the segment that receives a failed
\* insert (409 or 500) leaves it, and the whole cache, as it was.
C7_StampOnlyOnSuccess ==
    [][/\ \A p \in Procs :
            ( /\ req[p].pc = "ret" /\ req[p].kind = "postRecord" /\ Steps(p)
              /\ req[p].res.error # "none" ) =>
                /\ cache' = cache
                /\ req'[p].pc = "done"
                /\ req'[p].status =
                     (IF req[p].res.error = UNIQUE_VIOLATION THEN 409 ELSE 500)
       /\ cache'.lastSubActionTime # cache.lastSubActionTime =>
            \E p \in Procs :
                /\ req[p].pc = "ret" /\ req[p].kind = "postRecord" /\ Steps(p)
                /\ req[p].role = "sub_admin" /\ req[p].res.error = "none"
                /\ cache'.lastSubActionTime = now]_vars

\* A sub-admin's insert has failed and the limiter still holds its initial
\* timestamp.
C7_Witness ==
    \E p \in Procs :
        /\ req[p].pc = "done" /\ req[p].kind = "postRecord" /\ req[p].token = "s1"
        /\ req[p].status = 500 /\ cache.lastSubActionTime = 0


\* ------------------------------------------------------------- SpecUpdate
\* Update and delete by id: the super-admin's requests interleave against a
\* store whose keys are matched by the route's string or only by the
\* parsed integer, with the id of a row that is held at first and deleted
\* later and an id that is not a number, while the store fails some calls.
UpdateIds == { <<"0", "1">>, <<"x">> }
DeleteIds == { <<"1">> }

InitUpdate == InitWith({ Store({Row(1, 1)}, NULL, NULL, k) : k \in BOOLEAN })

NextUpdate ==
    \E p \in Procs :
        \/ \E id \in DeleteIds : DeleteRecord(p, ADMIN_PASSWORD, id)
        \/ \E id \in UpdateIds : PutRecord(p, ADMIN_PASSWORD, id, Row(9, 2))
        \/ StoreDelete(p)
        \/ StoreUpdate(p)
        \/ StoreError(p)
        \/ UpsertOrDeleteReturn(p)
        \/ PutRecordReturn(p)
        \/ SyncReadRecords(p)
        \/ SyncReadAliases(p)
        \/ SyncReadSubPwd(p)
        \/ SyncPublish(p)

SpecUpdate == InitUpdate /\ [][NextUpdate]_vars

\* The store executes the call of slot p in this step and reports no error.
Executed(p, kind) ==
    /\ req[p].pc = "call" /\ req[p].kind = kind
    /\ req'[p].pc = "ret" /\ req'[p].res.error = "none"

\* The rows of the store that .eq('id', id) selects, `numeric` telling
\* whether the parsed integer is passed.
Matching(id, numeric) == { x \in store.records : EqId(x, id, numeric) }

\* C11: a super-admin's DELETE /api/records/:id whose delete call returns
\* no error goes on to the forced resync and is answered 200, whether the
\* id selected a row or none; no delete request is ever answered 404.  The
\* delete removes exactly the selected rows, so the store it leaves holds
\* no such row: the same delete executed again changes nothing.
C11_DeleteIdempotent ==
    [][\A p \in Procs :
         /\ Executed(p, "delete") =>
               /\ store'.records = store.records \ Matching(req[p].id, FALSE)
               /\ { x \in store'.records : EqId(x, req[p].id, FALSE) } = {}
               /\ Matching(req[p].id, FALSE) = {} => store' = store
         /\ ( /\ req[p].pc = "ret" /\ req[p].kind = "delete" /\ Steps(p)
               /\ req[p].res.error = "none" ) => req'[p].pc = "sync"
         /\ (req[p].pc = "sync" /\ req[p].kind = "delete" /\ Steps(p)
               /\ req'[p].pc = "done") => req'[p].status = 200
         /\ req'[p].kind = "delete" => req'[p].status # 404]_vars

\* Two deletes of the same id have been answered 200 each, the second
\* executed when the store no longer held the row.
C11_Witness ==
    /\ store.records = {} /\ ~store.strictKeys /\ cache.records = <<>>
    /\ \E p, q \in Procs :
         /\ p # q /\ req[p].id = req[q].id
         /\ \A o \in {p, q} :
              /\ req[o].pc = "done" /\ req[o].kind = "delete"
              /\ req[o].status = 200 /\ req[o].calls = 4

\* Slot p's update handler resumes in this step with the result of a call.
PutResumed(p) == req[p].pc = "ret" /\ req[p].kind = "put" /\ Steps(p)

\* C12: in a super-admin's PUT /api/records/:id with an all-digit id, when
\* the update keyed by the string returns zero rows the update keyed by
\* the parsed integer is issued; when that one selects a row the store
\* returns the row as updated, the handler forces the resync (three
\* reads after the two updates) and only then answers 200 with the row
\* the store returned.
C12_NumericRetrySucceeds ==
    [][\A p \in Procs :
         /\ ( /\ PutResumed(p) /\ ~req[p].numeric /\ IsDigits(req[p].id)
               /\ req[p].res.error = "none" /\ Len(req[p].res.data) = 0 ) =>
                 /\ req'[p].pc = "call" /\ req'[p].numeric /\ req'[p].calls = 2
                 /\ req'[p].id = req[p].id /\ req'[p].row = req[p].row
         /\ ( /\ Executed(p, "put") /\ req[p].numeric
               /\ Matching(req[p].id, TRUE) # {} ) =>
                 /\ Len(req'[p].res.data) = 1
                 /\ req'[p].res.data[1].id = ParseInt(req[p].id)
                 /\ req'[p].res.data[1].play_date = req[p].row.play_date
                 /\ req'[p].res.data[1] \in store'.records
         /\ ( /\ PutResumed(p) /\ req[p].numeric
               /\ req[p].res.error = "none" /\ Len(req[p].res.data) > 0 ) =>
                 /\ req'[p].pc = "sync" /\ req'[p].calls = 5
                 /\ req'[p].res = req[p].res /\ cache' = cache
         /\ ( /\ req[p].pc = "sync" /\ req[p].kind = "put" /\ Steps(p)
               /\ req'[p].pc = "done" ) =>
                 /\ req'[p].status = 200 /\ req'[p].calls \in {4, 5}
                 /\ req'[p].body = <<req[p].res.data[1]>>
                 /\ Snapshot(cache') = Snapshot(Loaded(req[p].rd))]_vars

\* An update of id "01" has been answered 200 with row 1 as updated, after
\* two update calls and the three reads, by a store that matches integer
\* keys only.
C12_Witness ==
    /\ store.strictKeys
    /\ \E p \in Procs :
         /\ req[p].pc = "done" /\ req[p].kind = "put" /\ req[p].status = 200
         /\ req[p].calls = 5 /\ req[p].body = <<Row(1, 2)>>

\* C13: a super-admin's PUT /api/records/:id whose last attempted update
\* (the only one for an id that is not all digits, the numeric retry
\* otherwise) returns zero rows and no error is answered 404 in the segment
\* that receives the result: the request has issued its one or two
\* updates and no read of a resync, and the cache and the store are as
\* they were.  An update that selects no row leaves the store unchanged.
C13_MissingRow404 ==
    [][\A p \in Procs :
         /\ ( /\ PutResumed(p)
               /\ req[p].res.error = "none" /\ Len(req[p].res.data) = 0
               /\ (req[p].numeric \/ ~IsDigits(req[p].id)) ) =>
                 /\ req'[p].pc = "done" /\ req'[p].status = 404
                 /\ req'[p].calls = (IF req[p].numeric THEN 2 ELSE 1)
                 /\ cache' = cache /\ store' = store
         /\ ( /\ Executed(p, "put")
               /\ Matching(req[p].id, req[p].numeric) = {} ) =>
                 /\ store' = store /\ cache' = cache
                 /\ Len(req'[p].res.data) = 0
         /\ (req'[p].kind = "put" /\ req'[p].status = 404) =>
                 req'[p].calls \in {1, 2}]_vars

\* With no call failed, an update of id "01" has been answered 404 after
\* both of its updates found the row deleted.
C13_Witness ==
    /\ nfaults = 0 /\ store.records = {}
    /\ \E p \in Procs :
         /\ req[p].pc = "done" /\ req[p].kind = "put" /\ req[p].status = 404
         /\ req[p].calls = 2

\* C16 as stated: an update request issues at most two update calls, and
\* the segment that receives the result of the first (string-keyed) call
\* issues the second exactly when that call returned zero rows without an
\* error and the id is all digits; after a store error, or for an id that
\* is not all digits, the request is answered with no second call.
C16_RetryOnlyOnZeroRows ==
    [][\A p \in Procs :
         /\ req'[p].kind = "put" /\ req'[p].pc \in {"call", "ret"} => req'[p].calls <= 2
         /\ (PutResumed(p) /\ ~req[p].numeric) =>
               /\ req'[p].pc = "call" <=>
                     ( /\ req[p].res.error = "none" /\ Len(req[p].res.data) = 0
                       /\ IsDigits(req[p].id) )
               /\ req'[p].pc # "call" => req'[p].calls = 1 \/ req'[p].pc = "sync"
         /\ PutResumed(p) /\ req[p].numeric => req'[p].pc # "call"]_vars


\* ------------------------------------------------------------- SpecFaults
\* Failures of the reads of a sync: every endpoint is entered, one request
\* after the other (beside the first sync), while a read of a sync comes
\* back as { data: null, error } or rejects, and while a mutating call
\* fails.  The store starts empty (no records, neither settings row) or
\* with a record and both settings rows.
InitFaults ==
    InitWith({ Store({}, NULL, NULL, FALSE),
               Store({Row(1, 1)}, "a1", "s1", FALSE) })

FaultGetRecords(p) == OneAtATime /\ GetRecords(p)
FaultGetAliases(p) == OneAtATime /\ GetAliases(p)
FaultPostRecord(p, t) ==
    OneAtATime /\ PostRecord(p, t, IF t = ADMIN_PASSWORD THEN Row(3, 3) ELSE Row(2, 2))

NextFaults ==
    \E p \in Procs :
        \/ FaultGetRecords(p)
        \/ FaultGetAliases(p)
        \/ FaultPostRecord(p, ADMIN_PASSWORD)
        \/ AuthPostAliases(p, ADMIN_PASSWORD)
        \/ AuthSetSubPassword(p, ADMIN_PASSWORD, "s1")
        \/ AuthDeleteRecord(p, ADMIN_PASSWORD)
        \/ AuthPutRecord(p, ADMIN_PASSWORD)
        \/ StoreInsert(p)
        \/ StoreUpsertAliases(p)
        \/ StoreUpsertSubPwd(p)
        \/ StoreDelete(p)
        \/ StoreUpdate(p)
        \/ StoreError(p)
        \/ PostRecordReturn(p)
        \/ UpsertOrDeleteReturn(p)
        \/ PutRecordReturn(p)
        \/ SyncReadRecords(p)
        \/ SyncReadAliases(p)
        \/ SyncReadSubPwd(p)
        \/ \E f \in {"records", "aliases", "subPwd"} : SyncReadError(p, f)
        \/ SyncRaise(p)
        \/ SyncPublish(p)

SpecFaults == InitFaults /\ [][NextFaults]_vars

Mutating == {"postRecord", "postAliases", "setSubPwd", "put", "delete"}

\* The sync awaited by slot p's handler ends in this step and the handler
\* answers: by its assignments when all three reads have come back, by
\* raising otherwise.
SyncEnded(p) == req[p].pc = "sync" /\ Steps(p) /\ req'[p].pc = "done"
SyncRaised(p) == SyncEnded(p) /\ ~AllRead(req[p])

\* C14 as stated: a mutating request whose store call succeeded and whose
\* forced resync then ends, by its assignments or by raising, is answered
\* 200.
C14_ResyncRaiseStillSuccess ==
    [][\A p \in Procs :
         (SyncEnded(p) /\ req[p].kind \in Mutating) => req'[p].status = 200]_vars

\* C15: GET /api/aliases is never answered with a status other than 200.
\* Entered with records in the cache it answers the cached aliases at
\* once; when its lazy sync returns it answers the aliases the sync has
\* just assigned; when its lazy sync raises it answers the empty mapping
\* with status 200 and the cache is as it was.  GET /api/records whose
\* lazy sync raises answers 500.
C15_AliasesNeverFail ==
    [][\A p \in Procs :
         /\ (req'[p].kind = "getAliases" /\ req'[p].pc = "done") => req'[p].status = 200
         /\ (GetStarted(p) /\ req'[p].kind = "getAliases" /\ req'[p].pc = "done") =>
               req'[p].text = cache.aliases /\ Len(cache.records) > 0
         /\ (SyncEnded(p) /\ req[p].kind = "getAliases" /\ AllRead(req[p])) =>
               req'[p].text = cache'.aliases
         /\ (SyncRaised(p) /\ req[p].kind = "getAliases") =>
               /\ req'[p].status = 200 /\ req'[p].text = EMPTY_MAP
               /\ cache' = cache
         /\ (SyncRaised(p) /\ req[p].kind = "getRecords") =>
               /\ req'[p].status = 500 /\ req'[p].body = <<>>
               /\ cache' = cache]_vars

\* GET /api/aliases has been answered {} with status 200 after its three
\* reads were issued, while the cache holds the aliases "a1" that an
\* earlier POST /api/aliases made it load: its lazy sync has raised.
C15_Witness ==
    /\ cache.aliases = "a1"
    /\ \E p \in Procs :
         /\ req[p].pc = "done" /\ req[p].kind = "getAliases" /\ req[p].status = 200
         /\ req[p].calls = 3 /\ req[p].text = EMPTY_MAP

\* One read of slot p's sync comes back in this step.
ReadReturned(p) == req[p].pc = "sync" /\ Steps(p) /\ req'[p].pc = "sync"

\* C18: each read of a sync brings back what the store holds for it at
\* that moment (the rows in play_date order, the aliases value, the
\* secret) or a failure, and touches neither the results of the other two
\* reads nor the cache.  When the sync makes its assignments each field
\* follows from its own read alone: records are the rows read, or empty
\* after a failed read; aliases are the value read, or the empty mapping
\* after a failed read or for an absent row; the secret is the value
\* read, or null after a failed read or for an absent row.
C18_FieldsIndependent ==
    [][\A p \in Procs :
         /\ ReadReturned(p) =>
               LET a == req[p].rd
                   b == req'[p].rd
               IN /\ cache' = cache /\ store' = store
                  /\ \/ /\ a.recordsTag = Pending /\ b.recordsTag \in {"ok", "err"}
                        /\ b.recordsTag = "ok" => b.records \in Orderings(store.records)
                        /\ b.aliases = a.aliases /\ b.subPwd = a.subPwd
                     \/ /\ a.aliases = Pending /\ b.aliases \in {store.aliases, NULL}
                        /\ b.recordsTag = a.recordsTag /\ b.records = a.records
                        /\ b.subPwd = a.subPwd
                     \/ /\ a.subPwd = Pending /\ b.subPwd \in {store.subPwd, NULL}
                        /\ b.recordsTag = a.recordsTag /\ b.records = a.records
                        /\ b.aliases = a.aliases
         /\ (req[p].pc = "sync" /\ Steps(p) /\ AllRead(req[p])) =>
               LET rd == req[p].rd
               IN /\ cache'.records = (IF rd.recordsTag = "err" THEN <<>> ELSE rd.records)
                  /\ cache'.aliases = (IF rd.aliases = NULL THEN EMPTY_MAP ELSE rd.aliases)
                  /\ cache'.subAdminPwd = rd.subPwd]_vars

\* Before any request, the first sync has made its assignments after its
\* records read failed: the cache holds no records while the store holds
\* one, and holds the aliases and the secret of the store.
C18_Witness ==
    /\ nreq = 0 /\ nfaults = 1 /\ req[1].pc = "idle"
    /\ store.records # {} /\ cache.records = <<>>
    /\ cache.aliases = "a1" /\ cache.subAdminPwd = "s1"


\* ------------------------------------------------------------- SpecFrame
\* What changes the limiter's timestamp: the sub-admin's uploads run
\* beside those of the super-admin and beside every other endpoint, one
\* request after the other, with the failures of SpecFaults.  The store
\* starts with the secret "s1" and no records, so that the lazy syncs of
\* the GET handlers reload.
InitFrame == InitWith({ Store({}, NULL, "s1", FALSE) })

NextFrame ==
    \/ NextFaults
    \/ \E p \in Procs : FaultPostRecord(p, "s1")

SpecFrame == InitFrame /\ [][NextFrame]_vars

\* C20: lastSubActionTime changes only in the segment of POST
\* /api/records that receives a sub-admin's insert without error, where it
\* becomes the current time.  A super-admin's upload is never answered 429:
\* it issues its insert whatever the timestamp, and the segment that
\* receives its result leaves the timestamp as it was.  Every step of a
\* sync (its reads, its assignments, its raising; forced or lazy), and
\* every step of another handler, leaves the timestamp as it was.
C20_StampFrame ==
    [][/\ cache'.lastSubActionTime # cache.lastSubActionTime =>
            \E p \in Procs :
                /\ req[p].pc = "ret" /\ req[p].kind = "postRecord" /\ Steps(p)
                /\ req[p].token # ADMIN_PASSWORD /\ req[p].role = "sub_admin"
                /\ req[p].res.error = "none"
                /\ cache'.lastSubActionTime = now
                /\ Snapshot(cache') = Snapshot(cache)
       /\ \A p \in Procs :
            /\ ( /\ Started(p) /\ req'[p].kind = "postRecord"
                  /\ req'[p].token = ADMIN_PASSWORD ) =>
                    /\ req'[p].pc = "call" /\ req'[p].status # 429
                    /\ cache' = cache
            /\ req'[p].token = ADMIN_PASSWORD => req'[p].status # 429
            /\ (req[p].pc = "sync" /\ Steps(p)) =>
                    cache'.lastSubActionTime = cache.lastSubActionTime
            /\ (Steps(p) /\ req[p].kind # "postRecord" /\ req'[p].kind # "postRecord") =>
                    cache'.lastSubActionTime = cache.lastSubActionTime]_vars

\* While the cooldown of a sub-admin's upload is running, a super-admin's
\* upload has been answered 200 after its forced sync, and the timestamp
\* is still the one the sub-admin's upload recorded.
C20_Witness ==
    /\ cache.lastSubActionTime = StartTime /\ now - cache.lastSubActionTime < COOLDOWN
    /\ Len(cache.records) = 2
    /\ \E p \in Procs :
         /\ req[p].pc = "done" /\ req[p].kind = "postRecord" /\ req[p].status = 200
         /\ req[p].token = ADMIN_PASSWORD /\ req[p].calls = 4


\* ------------------------------------------------------------- SpecMinutes
\* The remaining minutes of a throttled upload, to the millisecond.  The
\* server has run for a while: its first sync has loaded the secret "s1"
\* and the row that a sub-admin's upload inserted at lastSubActionTime;
\* the next uploads of the sub-admin arrive `e` milliseconds after it, for
\* `e` around every multiple of a minute that matters.
LastTimes == { StartTime, StartTime + 1 }
Elapsed ==
    { 0, 1, 59999, 60000, 60001, 299999, 300000, 300001,
      539999, 540000, 540001, 599999, 600000, 600001 }

InitMinutes ==
    /\ store = Store({Row(1, 1)}, NULL, "s1", FALSE)
    /\ \E last \in LastTimes, e \in Elapsed :
         /\ cache = [records |-> <<Row(1, 1)>>, aliases |-> EMPTY_MAP,
                     subAdminPwd |-> "s1", lastSubActionTime |-> last]
         /\ now = last + e
         /\ subWrites = {[n |-> 0, ins |-> last, seen |-> 0, rec |-> last]}
    /\ req = [p \in Procs |-> Idle]
    /\ nreq = 0
    /\ nticks = 0
    /\ nfaults = 0

NextMinutes ==
    \E p \in Procs :
        \/ \E row \in {Row(1, 1), Row(2, 2)} : PostRecord(p, "s1", row)
        \/ StoreInsert(p)
        \/ PostRecordReturn(p)
        \/ SyncReadRecords(p)
        \/ SyncReadAliases(p)
        \/ SyncReadSubPwd(p)
        \/ SyncPublish(p)

SpecMinutes == InitMinutes /\ [][NextMinutes]_vars

\* C17: a sub-admin's upload arriving at `now`, with lastSubActionTime <=
\* now < lastSubActionTime + 600000, is answered 429 with a number of
\* minutes m that is the least integer with m * 60000 >= 600000 - (now -
\* lastSubActionTime), and 1 <= m <= 10; no other upload is answered 429.
C17_RemainingMinutes ==
    [][\A p \in Procs :
         SubPostStarted(p) =>
            LET elapsed == now - cache.lastSubActionTime
                rest == 600000 - elapsed
                m == req'[p].minutes
            IN /\ (elapsed >= 0 /\ elapsed < 600000) <=> req'[p].status = 429
               /\ req'[p].status = 429 =>
                    /\ m \in 1 .. 10
                    /\ m * 60000 >= rest
                    /\ (m - 1) * 60000 < rest]_vars

\* An upload arriving one millisecond short of 5 minutes after the last
\* one has been answered 429 with 6 minutes remaining.
C17_Witness ==
    \E p \in Procs :
        /\ req[p].pc = "done" /\ req[p].kind = "postRecord" /\ req[p].status = 429
        /\ req[p].minutes = 6 /\ now - cache.lastSubActionTime = 299999


\* ------------------------------------------------------------- coherence
\* No handler and no sync is in flight; the first sync is among those that
\* have completed.
Quiescent == \A p \in Procs : req[p].pc \in {"idle", "done"}

\* C19 as stated: whenever nothing is in flight, the cache holds the rows
\* of the store in play_date order, the aliases of the store (the empty
\* mapping for an absent row) and the secret of the store.  Stated under
\* Spec, whose reads never fail and whose writes are all this server's.
C19_QuiescentCoherent ==
    Quiescent =>
        /\ cache.records \in Orderings(store.records)
        /\ cache.aliases = (IF store.aliases = NULL THEN EMPTY_MAP ELSE store.aliases)
        /\ cache.subAdminPwd = store.subPwd

=============================================================================
